---- MODULE Spec2Model ----
(***************************************************************************)
(* State-machine model of the retrieval-augmented answer pipeline          *)
(* (rag_pipeline.py), the SQLite audit store (audit_sqlite.py), the sync   *)
(* command (sync_cli.py), the markdown loader (markdown_loader.py) and the *)
(* manifest loader (manifest_loader.py).                                   *)
(*                                                                         *)
(* Conventions                                                             *)
(*  - Python str values that are searched, sliced or concatenated are      *)
(*    sequences of one-character strings.  None and "" of such a value are *)
(*    both the empty sequence: the code only ever tests them by truthiness *)
(*    (`title or src`, `d.id or d.path`, `if section:`).                   *)
(*  - Positions in a text are 1-based; 0 is Python's -1 ("not found").     *)
(*  - Relevance scores, the threshold and temperatures are hundredths      *)
(*    (0.35 is 35).                                                        *)
(*  - The timestamp columns (ts, indexed_at) are left out: now_iso() reads *)
(*    the clock and no modelled decision depends on it.                    *)
(***************************************************************************)
EXTENDS Integers, Sequences, FiniteSets, TLC

\* ---------------------------------------------------------------- bounds
\* query() calls per behaviour of Spec
MaxQueries == 2
\* calls (ingestion and query()) per behaviour of AnswerSpec
MaxAnswerCalls == 2
\* ingestion calls per behaviour
MaxIngests == 2
\* sync runs and file writes per behaviour of SyncSpec
MaxSyncs == 2
MaxWrites == 1
\* lines of a markdown file given to load_markdown_with_sections alone
MaxLines == 3
\* records given to SQLiteAudit.log called alone
MaxLogs == 3
\* index rebuilds (ingestion calls and sync runs) per behaviour of RebuildSpec
MaxRebuilds == 3

\* ------------------------------------------------------- config.py values
K_DOCUMENTS == 5
RETRIEVAL_THRESHOLD == 35
TEMPERATURE == 30

\* ------------------------------------------------------------ text helpers
Max2(a, b) == IF a >= b THEN a ELSE b

\* text[i:] starts with pat (i is 1-based)
StartsAt(text, pat, i) ==
    /\ i >= 1
    /\ i + Len(pat) - 1 <= Len(text)
    /\ \A j \in 1..Len(pat) : text[i + j - 1] = pat[j]

\* str.find(pat, start): lowest position >= start where pat occurs, 0 if none
RECURSIVE Find(_, _, _)
Find(text, pat, start) ==
    IF start + Len(pat) - 1 > Len(text) THEN 0
    ELSE IF StartsAt(text, pat, start) THEN start
    ELSE Find(text, pat, start + 1)

\* `pat in text`
Contains(text, pat) == Find(text, pat, 1) # 0

\* str.endswith
EndsWith(text, pat) ==
    Len(pat) <= Len(text) /\ StartsAt(text, pat, Len(text) - Len(pat) + 1)

\* str.strip() and the \s of _heading_re: the ASCII whitespace a string of the
\* module can hold (Python also counts \v and \x1c-\x1f)
IsSpace(c) == c \in {" ", "\n", "\t", "\r", "\f"}
IsDigit(c) == c \in {"0", "1", "2", "3", "4", "5", "6", "7", "8", "9"}

\* str.isdigit(): non-empty and every character a digit
IsDigitStr(s) == Len(s) > 0 /\ \A i \in 1..Len(s) : IsDigit(s[i])

\* str.lstrip() and str.rstrip()
RECURSIVE LStrip(_)
LStrip(text) == IF Len(text) > 0 /\ IsSpace(Head(text)) THEN LStrip(Tail(text)) ELSE text
RECURSIVE RStrip(_)
RStrip(text) ==
    IF Len(text) > 0 /\ IsSpace(text[Len(text)]) THEN RStrip(SubSeq(text, 1, Len(text) - 1))
    ELSE text

\* str.strip()
Strip(text) == RStrip(LStrip(text))

\* str.rstrip("/")
RECURSIVE RStripSlash(_)
RStripSlash(text) ==
    IF Len(text) > 0 /\ text[Len(text)] = "/" THEN RStripSlash(SubSeq(text, 1, Len(text) - 1))
    ELSE text

\* str.lower() on ASCII letters
LowerChar(c) ==
    CASE c = "A" -> "a" [] c = "B" -> "b" [] c = "C" -> "c" [] c = "D" -> "d"
      [] c = "E" -> "e" [] c = "F" -> "f" [] c = "G" -> "g" [] c = "H" -> "h"
      [] c = "I" -> "i" [] c = "J" -> "j" [] c = "K" -> "k" [] c = "L" -> "l"
      [] c = "M" -> "m" [] c = "N" -> "n" [] c = "O" -> "o" [] c = "P" -> "p"
      [] c = "Q" -> "q" [] c = "R" -> "r" [] c = "S" -> "s" [] c = "T" -> "t"
      [] c = "U" -> "u" [] c = "V" -> "v" [] c = "W" -> "w" [] c = "X" -> "x"
      [] c = "Y" -> "y" [] c = "Z" -> "z"
      [] OTHER -> c
Lower(text) == [i \in 1..Len(text) |-> LowerChar(text[i])]

DigitChar(d) ==
    CASE d = 0 -> "0" [] d = 1 -> "1" [] d = 2 -> "2" [] d = 3 -> "3" [] d = 4 -> "4"
      [] d = 5 -> "5" [] d = 6 -> "6" [] d = 7 -> "7" [] d = 8 -> "8" [] d = 9 -> "9"
DigitVal(c) ==
    CASE c = "0" -> 0 [] c = "1" -> 1 [] c = "2" -> 2 [] c = "3" -> 3 [] c = "4" -> 4
      [] c = "5" -> 5 [] c = "6" -> 6 [] c = "7" -> 7 [] c = "8" -> 8 [] c = "9" -> 9

\* f"{n}" for n >= 0
RECURSIVE IntToStr(_)
IntToStr(n) == IF n < 10 THEN <<DigitChar(n)>> ELSE IntToStr(n \div 10) \o <<DigitChar(n % 10)>>

\* int(s) succeeds: the model accepts plain decimal digit strings.  (Python
\* also accepts a sign, surrounding whitespace and inner underscores; no
\* such string contains "]".)
IntParses(s) == IsDigitStr(s)
RECURSIVE IntOf(_)
IntOf(s) == IF Len(s) = 0 THEN 0 ELSE IntOf(SubSeq(s, 1, Len(s) - 1)) * 10 + DigitVal(s[Len(s)])

\* sep.join(parts)
RECURSIVE Join(_, _)
Join(sep, parts) ==
    IF Len(parts) = 0 THEN <<>>
    ELSE IF Len(parts) = 1 THEN parts[1]
    ELSE parts[1] \o sep \o Join(sep, Tail(parts))

\* the first n elements of a list: list[:n] for n >= 0
Take(s, n) == SubSeq(s, 1, IF n <= Len(s) THEN n ELSE Len(s))

\* os.path.basename
Basename(path) ==
    LET slashes == {i \in 1..Len(path) : path[i] = "/"}
    IN  IF slashes = {} THEN path
        ELSE SubSeq(path, (CHOOSE i \in slashes : \A j \in slashes : j <= i) + 1, Len(path))

\* os.path.expanduser: "~" and "~/..." name the home directory of $HOME;
\* "~name" is looked up in the password database, which knows no user that
\* a path of the modelled world names, and such a path stays as written
HOME == <<"/", "h", "o", "m", "e", "/", "u">>
ExpandUser(path) ==
    IF Len(path) = 0 \/ path[1] # "~" THEN path
    ELSE LET slash == Find(path, <<"/">>, 2)
             i == IF slash = 0 THEN Len(path) + 1 ELSE slash
         IN  IF i = 2 THEN RStripSlash(HOME) \o SubSeq(path, i, Len(path))
             ELSE path

\* os.path.splitext(name)[1]: from the last dot of the basename, "" when the
\* basename has none or only leading dots
Suffix(name) ==
    LET b == Basename(name)
        dots == {i \in 1..Len(b) : b[i] = "." /\ \E j \in 1..(i - 1) : b[j] # "."}
    IN  IF dots = {} THEN <<>>
        ELSE SubSeq(b, CHOOSE i \in dots : \A j \in dots : j <= i, Len(b))

ABSTAIN == <<"N", "o", "t", " ", "i", "n", " ", "K", "B", " ", "y", "e", "t", ".", " ", "P", "l", "e", "a", "s", "e", " ", "a", "d", "d", " ", "t", "h", "e", " ", "r", "e", "l", "e", "v", "a", "n", "t", " ", "S", "O", "P", "/", "p", "o", "l", "i", "c", "y", " ", "d", "o", "c", "u", "m", "e", "n", "t", " ", "t", "o", " ", "t", "h", "e", " ", "k", "n", "o", "w", "l", "e", "d", "g", "e", " ", "b", "a", "s", "e", ".">>


\* ------------------------------------------------- _extract_citation_tokens
\* The loop of _extract_citation_tokens from position i, with `out` so far.
RECURSIVE ExtractFrom(_, _, _)
ExtractFrom(text, i, out) ==
    LET i1 == Find(text, <<"[", "S">>, i)
    IN  IF i1 = 0 THEN out
        ELSE LET j == Find(text, <<"]">>, i1)
             IN  IF j = 0 THEN out
                 ELSE LET token == SubSeq(text, i1 + 1, j - 1)
                          ok == StartsAt(token, <<"S">>, 1) /\ IsDigitStr(Tail(token))
                      IN  ExtractFrom(text, j + 1,
                              IF ok THEN Append(out, <<"[">> \o token \o <<"]">>) ELSE out)

_extract_citation_tokens(text) == ExtractFrom(text, 1, <<>>)

\* ------------------------------------------------------ the modelled world
\* A file's text is a sequence of lines.  A line carries what
\* _heading_re.match(line.strip()) finds: kind "h" (heading, with level and
\* title), "t" (other non-blank text) or "b" (blank); raw is the line's text.
\* The text of a PDF file is given page by page: each line is one page.
HLine(level, title, raw) == [kind |-> "h", level |-> level, title |-> title, raw |-> raw]
TLine(raw) == [kind |-> "t", level |-> 0, title |-> <<>>, raw |-> raw]
BLine == [kind |-> "b", level |-> 0, title |-> <<>>, raw |-> <<>>]

P_qc == <<"k", "b", "/", "q", "c", ".", "m", "d">>
P_pub == <<"p", "u", "b", ".", "M", "D">>
P_low == <<"l", "o", "w", ".", "t", "x", "t">>
P_docx == <<"o", "l", "d", ".", "d", "o", "c", "x">>
P_gone == <<"g", "o", "n", "e", ".", "m", "d">>
P_gonex == <<"g", "o", "n", "e", ".", "d", "o", "c", "x">>
P_empty == <<"e", "m", "p", "t", "y", ".", "t", "x", "t">>
P_pdf == <<"g", "u", "i", "d", "e", ".", "p", "d", "f">>
\* a path under the home directory as a manifest writes it, and expanded
P_home == <<"~", "/", "l", "o", "w", ".", "t", "x", "t">>
P_homelow == ExpandUser(P_home)

Text_qc == <<HLine(1, <<"Q", "C">>, <<"#", " ", "Q", "C">>), TLine(<<"t", "1">>), TLine(<<"t", "2">>), BLine, TLine(<<"t", "3">>)>>
Text_pub == <<TLine(<<"t", "4">>)>>
Text_pub2 == <<TLine(<<"t", "4">>), TLine(<<"t", "5">>)>>
Text_low == <<TLine(<<"t", "5">>)>>
Text_pdf == <<TLine(<<"t", "3">>), TLine(<<"t", "4">>)>>
Text_notes == <<HLine(1, <<"A">>, <<"#", " ", "A">>), TLine(<<"t", "4">>), HLine(2, <<"B">>, <<"#", "#", " ", "B">>), TLine(<<"t", "5">>)>>

Paths == {P_qc, P_pub, P_low, P_docx, P_gone, P_gonex, P_empty, P_pdf, P_home, P_homelow}
NoFile == [exists |-> FALSE, text |-> <<>>]
File(text) == [exists |-> TRUE, text |-> text]

\* the files on disk when the program starts
InitialFiles ==
    [p \in Paths |->
        CASE p = P_qc -> File(Text_qc)
          [] p = P_pub -> File(Text_pub)
          [] p = P_low -> File(Text_low)
          [] p = P_docx -> File(Text_low)
          [] p = P_empty -> File(<<>>)
          [] p = P_pdf -> File(Text_pdf)
          [] p = P_home -> File(Text_pub)
          [] p = P_homelow -> File(Text_low)
          [] OTHER -> NoFile]

\* relevance of a chunk text to a question, as the embedding backend and the
\* similarity index score it (deterministic within a session)
Questions == {"q1"}
Score(question, text) ==
    CASE text = <<"t", "1">> -> 90
      [] text = <<"t", "2">> -> 80
      [] text = <<"t", "3">> -> 10
      [] text = <<"t", "4">> -> 35
      [] text = <<"t", "5">> -> 20
      [] OTHER -> 0

NoRole == ""
Roles == {NoRole, "(all)", "qc", "warehouse"}

\* ------------------------------------------------------------------ loading
\* Document.metadata; a key the code never set holds the empty value, and
\* NoPage is the "page" of a document that has none (md.get("page") is None).
NoPage == 0 - 1
Meta(source, section_path) ==
    [source |-> source, section_path |-> section_path, chunk |-> 0, page |-> NoPage,
     doc_id |-> <<>>, title |-> <<>>, tags |-> <<>>, allowed_roles |-> <<>>]
Document(page_content, metadata) == [page_content |-> page_content, metadata |-> metadata]

\* A text is held as its non-blank lines, piece by piece.
RECURSIVE Pieces(_)
Pieces(lines) ==
    IF Len(lines) = 0 THEN <<>>
    ELSE (IF Head(lines).kind = "b" THEN <<>> ELSE <<Head(lines).raw>>) \o Pieces(Tail(lines))

\* "\n".join(buf).strip() of line 40 on the pieces of buf: the first loses
\* its leading whitespace and the last its trailing whitespace
StripEnds(pieces) ==
    [i \in 1..Len(pieces) |->
        LET left == IF i = 1 THEN LStrip(pieces[i]) ELSE pieces[i]
        IN  IF i = Len(pieces) THEN RStrip(left) ELSE left]

\* flush() of load_markdown_with_sections
flush(docs, buf, source_name, current_section_path) ==
    IF Pieces(buf) # <<>>
    THEN Append(docs, Document(StripEnds(Pieces(buf)),
                               Meta(source_name, current_section_path)))
    ELSE docs

\* the line loop of load_markdown_with_sections from line i on
RECURSIVE SegmentFrom(_, _, _, _, _, _, _)
SegmentFrom(lines, i, source_name, heading_stack, buf, current_section_path, docs) ==
    IF i > Len(lines)
    THEN flush(docs, buf, source_name, current_section_path)
    ELSE IF lines[i].kind = "h"
         THEN LET stack == Append(Take(heading_stack, lines[i].level - 1), lines[i].title)
              IN  SegmentFrom(lines, i + 1, source_name, stack, <<>>,
                              Join(<<" ", ">", " ">>, stack),
                              flush(docs, buf, source_name, current_section_path))
         ELSE SegmentFrom(lines, i + 1, source_name, heading_stack,
                          Append(buf, lines[i]), current_section_path, docs)

load_markdown_with_sections(text, source_name) ==
    LET docs == SegmentFrom(text, 1, source_name, <<>>, <<>>, <<>>, <<>>)
    IN  IF docs = <<>> /\ Pieces(text) # <<>>
        THEN <<Document(Pieces(text), Meta(source_name, <<>>))>>
        ELSE docs

\* the number of "#" a text starts with
RECURSIVE LeadingHashes(_)
LeadingHashes(s) ==
    IF Len(s) > 0 /\ Head(s) = "#" THEN 1 + LeadingHashes(Tail(s)) ELSE 0

\* _heading_re.match(line.strip()) on a line given by its characters, with
\* what lines 58-59 take from the match: one to six "#", then whitespace,
\* then the title
heading_match(line) ==
    LET s == Strip(line)
        n == LeadingHashes(s)
    IN  IF n \in 1..6 /\ n < Len(s) /\ IsSpace(s[n + 1])
        THEN HLine(n, Strip(SubSeq(s, n + 1, Len(s))), line)
        ELSE IF s = <<>> THEN BLine
        ELSE TLine(line)

\* text.splitlines() of a text given as its lines, each line matched
ReadLines(lines) == [i \in 1..Len(lines) |-> heading_match(lines[i])]

\* PyPDFLoader(path).load(): one document per page, in page order, each with
\* the path it was read from as "source" and its 0-based page number
PyPDFLoader_load(path, pages) ==
    [i \in 1..Len(pages) |->
        Document(Pieces(<<pages[i]>>), [Meta(path, <<>>) EXCEPT !.page = i - 1])]

\* _load_path(path, source_name) on the file `file` found at `path`:
\* ok = FALSE is an exception raised by reading the file.  TextLoader and
\* PyPDFLoader name the path they read as "source", so setdefault leaves it.
_load_path(path, file, source_name) ==
    IF EndsWith(Lower(path), <<".", "m", "d">>)
    THEN IF file.exists
         THEN [ok |-> TRUE, docs |-> load_markdown_with_sections(file.text, source_name)]
         ELSE [ok |-> FALSE, docs |-> <<>>]
    ELSE IF EndsWith(Lower(path), <<".", "p", "d", "f">>)
    THEN IF file.exists
         THEN [ok |-> TRUE, docs |-> PyPDFLoader_load(path, file.text)]
         ELSE [ok |-> FALSE, docs |-> <<>>]
    ELSE IF EndsWith(Lower(path), <<".", "t", "x", "t">>)
    THEN IF file.exists
         THEN [ok |-> TRUE, docs |-> <<Document(Pieces(file.text), Meta(path, <<>>))>>]
         ELSE [ok |-> FALSE, docs |-> <<>>]
    ELSE [ok |-> TRUE, docs |-> <<>>]

\* the loop of load_manifest_paths / load_manifest_docs / load_documents:
\* the concatenated documents, or the first exception
RECURSIVE LoadAll(_, _)
LoadAll(loads, docs) ==
    IF Len(loads) = 0 THEN [ok |-> TRUE, docs |-> docs]
    ELSE IF ~Head(loads).ok THEN [ok |-> FALSE, docs |-> <<>>]
    ELSE LoadAll(Tail(loads), docs \o Head(loads).docs)

\* text_splitter.split_documents: the chunks of each document in order, each
\* with a copy of its document's metadata.  A piece is a chunk-sized unit of
\* text; a document without text yields no chunk.
RECURSIVE split_documents(_)
split_documents(documents) ==
    IF Len(documents) = 0 THEN <<>>
    ELSE LET d == Head(documents)
         IN  [i \in 1..Len(d.page_content) |-> Document(d.page_content[i], d.metadata)]
             \o split_documents(Tail(documents))

\* the numbering loop with one counter for the whole batch instead of one
\* per source
RECURSIVE NumberChunks_oneCounter(_, _, _)
NumberChunks_oneCounter(splits, i, numbered) ==
    IF i > Len(splits) THEN numbered
    ELSE NumberChunks_oneCounter(splits, i + 1,
             Append(numbered, Document(splits[i].page_content,
                                       [splits[i].metadata EXCEPT !.chunk = i])))

\* the per-source chunk numbering loop of _index_documents
RECURSIVE NumberChunks(_, _, _)
NumberChunks(splits, i, numbered) ==
    IF i > Len(splits) THEN numbered
    ELSE LET src == splits[i].metadata.source
             n == Cardinality({j \in 1..(i - 1) : splits[j].metadata.source = src}) + 1
         IN  NumberChunks(splits, i + 1,
                 Append(numbered, Document(splits[i].page_content,
                                           [splits[i].metadata EXCEPT !.chunk = n])))

\* Chroma.from_documents(documents=splits, embedding=..., persist_directory=
\* None) of lines 197-201 names no collection and no client, and the program
\* never deletes or resets a collection: the chunks are added to the
\* library's default collection of an in-memory client.  The library decides
\* what that collection already holds.  A library whose in-memory clients
\* are one per process ("shared") hands every call the same collection, which
\* still holds `held`, the chunks added by the earlier calls of the process;
\* a library that creates a client per call ("fresh") starts from an empty
\* collection.  Either is a build of the program.
ChromaClients == {"shared", "fresh"}
FromDocuments(held, splits, client) ==
    [built |-> TRUE, chunks |-> (IF client = "shared" THEN held ELSE <<>>) \o splits]
NoStore == [built |-> FALSE, chunks |-> <<>>]

\* line 197: `self.vectorstore = ...` drops the store held so far
AssignVectorstore(current, created) == created

\* _index_documents(documents): the store that becomes self.vectorstore, or
\* the exception ("empty" is the ValueError of line 186, "embedding" a failure
\* inside Chroma.from_documents).  Line 185 tests the documents, not the
\* chunks: documents whose text gives no chunk reach Chroma.from_documents
\* with an empty list, which returns a store to which nothing was added
\* (embedOk) or raises, as the library version has it.  `held` is what the
\* process has added to the default collection so far.
_index_documents(documents, held, client, embedOk) ==
    IF documents = <<>> THEN [ok |-> FALSE, error |-> "empty", store |-> NoStore]
    ELSE IF ~embedOk THEN [ok |-> FALSE, error |-> "embedding", store |-> NoStore]
    ELSE [ok |-> TRUE, error |-> "",
          store |-> FromDocuments(held, NumberChunks(split_documents(documents), 1, <<>>),
                                 client)]

\* the metadata load_manifest_docs attaches to every document of an entry
WithManifestMeta(docs, md) ==
    [i \in 1..Len(docs) |->
        Document(docs[i].page_content,
                 [docs[i].metadata EXCEPT !.doc_id = md.id, !.title = md.title,
                                          !.tags = md.tags, !.allowed_roles = md.allowed_roles])]

\* ---------------------------------------------------------------- retrieval
\* similarity_search_with_relevance_scores(question, k): the k best-scoring
\* chunks, best first (ties in stored order), each with its score
RECURSIVE InsertByScore(_, _)
InsertByScore(sorted, pair) ==
    IF Len(sorted) = 0 THEN <<pair>>
    ELSE IF pair.score > Head(sorted).score THEN <<pair>> \o sorted
    ELSE <<Head(sorted)>> \o InsertByScore(Tail(sorted), pair)

RECURSIVE SortByScore(_)
SortByScore(pairs) ==
    IF Len(pairs) = 0 THEN <<>>
    ELSE InsertByScore(SortByScore(SubSeq(pairs, 1, Len(pairs) - 1)), pairs[Len(pairs)])

similarity_search_with_relevance_scores(chunks, question, k) ==
    Take(SortByScore([i \in 1..Len(chunks) |->
                        [doc |-> chunks[i], score |-> Score(question, chunks[i].page_content)]]),
         k)

InList(x, list) == \E i \in 1..Len(list) : list[i] = x

\* allowed(doc) that reads an empty allowed_roles as "nobody"
allowed_emptyDenies(doc, role) ==
    IF role = NoRole \/ role = "(all)" THEN TRUE
    ELSE InList(role, doc.metadata.allowed_roles)

\* allowed(doc) of _retrieve
allowed(doc, role) ==
    IF role = NoRole \/ role = "(all)" THEN TRUE
    ELSE IF doc.metadata.allowed_roles = <<>> THEN TRUE
    ELSE InList(role, doc.metadata.allowed_roles)

\* raw_k without the over-fetch
raw_k_noOverfetch(k) == k

\* line 212
raw_k(k) == Max2(k * 3, k)

\* [(d, s) for (d, s) in pairs if allowed(d)]
FilterAllowed(pairs, role) ==
    LET Test(p) == allowed(p.doc, role) IN SelectSeq(pairs, Test)

\* _retrieve(question, k, role) on a built store, k >= 1
_retrieve(chunks, question, k, role) ==
    LET pairs == similarity_search_with_relevance_scores(chunks, question, raw_k(k))
        filtered == Take(FilterAllowed(pairs, role), k)
    IN  [i \in 1..Len(filtered) |->
            [doc |-> filtered[i].doc, score |-> filtered[i].score, idx |-> i]]

\* _serialize_retrieval
_serialize_retrieval(retrieved) ==
    [i \in 1..Len(retrieved) |->
        [id |-> retrieved[i].idx, score |-> retrieved[i].score,
         source |-> retrieved[i].doc.metadata.source,
         chunk |-> retrieved[i].doc.metadata.chunk,
         page |-> retrieved[i].doc.metadata.page]]

\* -------------------------------------------------------------------- query
NoTemp == 0 - 1
NoK == 0

\* int(k or config.K_DOCUMENTS): None and 0 both give the default
EffectiveK(k) == IF k = NoK THEN K_DOCUMENTS ELSE k

\* the ref of one retrieved chunk (lines 285-299); every indexed chunk has a
\* chunk number
Ref(r) ==
    LET md == r.doc.metadata
        label == IF md.title # <<>> THEN md.title ELSE md.source
        parts == <<<<"c", "h", "u", "n", "k", " ">> \o IntToStr(md.chunk)>>
                 \o (IF md.page # NoPage THEN <<<<"p", "a", "g", "e", " ">> \o IntToStr(md.page)>> ELSE <<>>)
                 \o (IF md.section_path # <<>> THEN <<<<"s", "e", "c", "t", "i", "o", "n", " ">> \o md.section_path>> ELSE <<>>)
    IN  label \o <<" ", "(">> \o Join(<<",", " ">>, parts) \o <<")">>

source_map(retrieved) ==
    [i \in 1..Len(retrieved) |-> [id |-> retrieved[i].idx, ref |-> Ref(retrieved[i])]]

\* lines 320-322: the answer text after the "model didn't cite anything" test
CitationGate(answer_text) ==
    IF ~Contains(answer_text, <<"[", "S">>) /\ ~Contains(answer_text, <<"N", "o", "t", " ", "i", "n", " ", "K", "B", " ", "y", "e", "t">>)
    THEN ABSTAIN
    ELSE answer_text

\* x[2:] of a token x
TokenTail(x) == SubSeq(x, 3, Len(x))

\* line 324: int(x[2:]) raises ValueError on a string that is not a number
UsedIdsRaises(tokens) == \E i \in 1..Len(tokens) : ~IntParses(TokenTail(tokens[i]))

\* line 324: used_ids, used below only for emptiness and membership
UsedIds(tokens) == {IntOf(TokenTail(tokens[i])) : i \in 1..Len(tokens)}

\* line 325
UsedSources(smap, used_ids) ==
    LET Cited(s) == s.id \in used_ids
    IN  IF used_ids # {} THEN SelectSeq(smap, Cited) ELSE smap

\* lines 328-332
WithSourcesSection(answer_text, used_sources) ==
    IF ~Contains(answer_text, <<"S", "o", "u", "r", "c", "e", "s">>)
    THEN answer_text \o <<"\n">>
         \o Join(<<"\n">>, <<<<"\n", "\n", "S", "o", "u", "r", "c", "e", "s", ":">>>>
                 \o [i \in 1..Len(used_sources) |->
                       <<"-", " ", "[", "S">> \o IntToStr(used_sources[i].id) \o <<"]", " ">> \o used_sources[i].ref])
    ELSE answer_text

Refs(used_sources) == [i \in 1..Len(used_sources) |-> used_sources[i].ref]

QALogRecord(question, status, best_score, k, sources, answer) ==
    [question |-> question, status |-> status, best_score |-> best_score, k |-> k,
     sources |-> sources, answer |-> answer]

\* what the generation backend may answer
Out_cite1 == <<"W", "i", "t", "h", "i", "n", " ", "3", "0", " ", "d", "a", "y", "s", " ", "[", "S", "1", "]", ".">>
Out_cite21 == <<"Y", "e", "s", " ", "[", "S", "2", "]", " ", "a", "n", "d", " ", "[", "S", "1", "]">>
Out_cite9 == <<" ", "S", "e", "e", " ", "[", "S", "9", "]", "\n">>
Out_plain == <<"I", "t", " ", "i", "s", " ", "3", "0", " ", "d", "a", "y", "s", ".">>
Out_bracket == <<"S", "e", "e", " ", "[", "S", "e", "c", "t", "i", "o", "n", " ", "2", "]", " ", "o", "f", " ", "t", "h", "e", " ", "S", "O", "P", ".">>
Out_refuse == <<"N", "o", "t", " ", "i", "n", " ", "K", "B", " ", "y", "e", "t", ".">>
Out_hedge == <<"N", "o", "t", " ", "i", "n", " ", "K", "B", " ", "y", "e", "t", ",", " ", "b", "u", "t", " ", "u", "s", "u", "a", "l", "l", "y", " ", "3", "0", " ", "d", "a", "y", "s", ".">>
Out_own == <<"3", "0", " ", "d", "a", "y", "s", ".", " ", "S", "o", "u", "r", "c", "e", "s", ":", " ", "t", "h", "e", " ", "S", "O", "P">>

LLMOutputs == {Out_cite1, Out_cite21, Out_cite9, Out_plain, Out_bracket, Out_refuse,
               Out_hedge, Out_own}
HistoryOutputs == {Out_cite1, Out_plain}

FinishWith(called, question, k, best_score, answer_text, refs, final) ==
    [called EXCEPT !.gated = answer_text, !.answer = final, !.sources = refs,
                   !.logged = TRUE,
                   !.record = QALogRecord(question, "answered", best_score, k, refs, final)]

\* lines 328-360 of query(): the Sources section, the two logs, the result
Finish(called, question, k, best_score, answer_text, used_sources) ==
    FinishWith(called, question, k, best_score, answer_text, Refs(used_sources),
               WithSourcesSection(answer_text, used_sources))

\* lines 324-360 of query(): reconcile the sources of the gated answer_text
\* with its citation tokens, append the Sources section, log and return
Reconcile(called, question, k, retrieved, best_score, answer_text, tokens) ==
    IF UsedIdsRaises(tokens)
    THEN [called EXCEPT !.raised = TRUE, !.error = "ValueError", !.gated = answer_text]
    ELSE Finish(called, question, k, best_score, answer_text,
                UsedSources(source_map(retrieved), UsedIds(tokens)))

Tokenize(called, question, k, retrieved, best_score, answer_text) ==
    Reconcile(called, question, k, retrieved, best_score, answer_text,
              _extract_citation_tokens(answer_text))

\* lines 314-322 of query(): set the temperature, invoke the backend, strip
\* and gate its answer
Generate(found, question, k, retrieved, best_score, llm_t, temperature, llmOk, content) ==
    LET t == IF temperature # NoTemp THEN temperature ELSE llm_t
        called == [found EXCEPT !.invoked = TRUE, !.invoked_t = t, !.llm_t = t]
    IN  IF ~llmOk THEN [called EXCEPT !.raised = TRUE, !.error = "generation"]
        ELSE Tokenize(called, question, k, retrieved, best_score, CitationGate(Strip(content)))

\* line 255 with `<=`: a best score equal to the threshold abstains
Abstains_exclusive(retrieved, best_score, threshold) ==
    retrieved = <<>> \/ best_score <= threshold

\* line 255: `not retrieved or best_score < threshold`
Abstains(retrieved, best_score, threshold) == retrieved = <<>> \/ best_score < threshold

\* lines 253-279 of query(): the abstention branch, or on to generation
Decide(base, question, k, retrieved, best_score, llm_t, temperature, llmOk, content) ==
    LET threshold == RETRIEVAL_THRESHOLD
        found == [base EXCEPT !.retrieved = retrieved, !.best_score = best_score,
                              !.retrieval = _serialize_retrieval(retrieved)]
    IN  IF Abstains(retrieved, best_score, threshold)
        THEN [found EXCEPT !.answer = ABSTAIN, !.sources = <<>>, !.logged = TRUE,
                           !.record = QALogRecord(question, "not_in_kb", best_score, k,
                                                  <<>>, ABSTAIN)]
        ELSE Generate(found, question, k, retrieved, best_score, llm_t, temperature,
                      llmOk, content)

\* line 253 of query()
Retrieved(base, question, k, retrieved, llm_t, temperature, llmOk, content) ==
    Decide(base, question, k, retrieved, IF retrieved # <<>> THEN retrieved[1].score ELSE 0,
           llm_t, temperature, llmOk, content)

\* self.logger (line 114): the JSONLLogger built by default or given as
\* `logger`, or any other truthy value given as `logger`; app.py:19 and
\* eval_retrieval.py:34 give config.OPENAI_API_KEY, a str
Loggers == {"JSONLLogger", "str"}
HasLog(lg) == lg = "JSONLLogger"

\* self.logger.log(...) of lines 258 and 334, the first statement of both
\* logging blocks: on a logger without a log method it raises AttributeError,
\* so neither log is written and nothing is returned
Logged(r, lg) ==
    IF r.logged /\ ~HasLog(lg)
    THEN [r EXCEPT !.raised = TRUE, !.error = "AttributeError", !.logged = FALSE,
                   !.answer = <<>>, !.sources = <<>>, !.retrieval = <<>>]
    ELSE r

\* One call of query() against the store `vs` with the model temperature
\* `llm_t` and the logger `lg`: everything it returns, raises, logs and
\* invokes.
\*   embedOk: the embedding of the question succeeds
\*   llmOk, content: llm.invoke returns msg.content = content, or raises
\* line 208 with the test left out: a pipeline without a store goes on to
\* retrieval
NoIndex_neverRaised(vs) == FALSE

\* line 208: `not self.vectorstore`
NoIndex(vs) == ~vs.built

query(vs, llm_t, lg, question, temperature, kArg, role, embedOk, llmOk, content) ==
    LET k == EffectiveK(kArg)
        base == [raised |-> FALSE, error |-> "", invoked |-> FALSE, invoked_t |-> NoTemp,
                 llm_t |-> llm_t, logged |-> FALSE,
                 record |-> QALogRecord(question, "", 0, k, <<>>, <<>>),
                 answer |-> <<>>, sources |-> <<>>, retrieval |-> <<>>, retrieved |-> <<>>,
                 best_score |-> 0, gated |-> <<>>]
    IN  IF NoIndex(vs) THEN [base EXCEPT !.raised = TRUE, !.error = "no_index"]
        ELSE IF ~embedOk THEN [base EXCEPT !.raised = TRUE, !.error = "embedding"]
        ELSE Logged(Retrieved(base, question, k, _retrieve(vs.chunks, question, k, role),
                                llm_t, temperature, llmOk, content),
                    lg)

\* ------------------------------------------------------- manifests, uploads
ManifestDoc(id, title, path, tags, allowed_roles) ==
    [id |-> id, title |-> title, path |-> path, tags |-> tags, allowed_roles |-> allowed_roles]

\* what load_manifest returns for each manifest file of the modelled world
Manifest(manifest_path) ==
    CASE manifest_path = "main.yaml" ->
            <<ManifestDoc(<<"q", "c", "-", "s", "o", "p">>, <<"Q", "C", " ", "S", "O", "P">>, P_qc, <<"qc">>, <<"qc">>),
              ManifestDoc(<<>>, <<>>, P_pub, <<>>, <<>>)>>
      [] manifest_path = "qc.yaml" ->
            <<ManifestDoc(<<"q", "c", "-", "s", "o", "p">>, <<"Q", "C", " ", "S", "O", "P">>, P_qc, <<"qc">>, <<"qc">>)>>
      [] manifest_path = "dup.yaml" ->
            <<ManifestDoc(<<"d">>, <<>>, P_pub, <<>>, <<>>),
              ManifestDoc(<<"d">>, <<>>, P_low, <<>>, <<>>)>>
      [] manifest_path = "same.json" ->
            <<ManifestDoc(<<>>, <<>>, P_pub, <<>>, <<>>),
              ManifestDoc(<<>>, <<>>, P_pub, <<>>, <<>>)>>
      [] manifest_path = "miss.yaml" ->
            <<ManifestDoc(<<"p", "u", "b">>, <<>>, P_pub, <<>>, <<>>),
              ManifestDoc(<<"g", "o", "n", "e">>, <<>>, P_gone, <<>>, <<>>)>>
      [] manifest_path = "home.yaml" ->
            <<ManifestDoc(<<"l", "o", "w">>, <<>>, P_home, <<>>, <<>>)>>
      [] manifest_path = "skip.json" ->
            <<ManifestDoc(<<>>, <<>>, P_low, <<>>, <<>>),
              ManifestDoc(<<>>, <<>>, P_gonex, <<>>, <<>>)>>

SyncManifests == {"main.yaml", "qc.yaml", "dup.yaml", "same.json", "miss.yaml", "skip.json"}
AppManifests == {"main.yaml", "home.yaml", "same.json"}

UploadedFile(name, text) == [name |-> name, text |-> text]
UploadBatches ==
    {<<UploadedFile(<<"n", "o", "t", "e", "s", ".", "m", "d">>, Text_notes), UploadedFile(<<"l", "o", "w", ".", "t", "x", "t">>, Text_low),
       UploadedFile(<<"b", ".", "t", "x", "t">>, Text_pub)>>,
     <<UploadedFile(<<"o", "l", "d", ".", "d", "o", "c", "x">>, Text_low)>>}
PathBatches == {<<P_home, P_docx>>, <<P_gone>>, <<P_empty>>, <<P_pdf>>}

\* the temporary file load_documents writes an upload to (lines 127-129):
\* tempfile gives every upload a name of its own choice, which ends with the
\* suffix.  The file is unlinked before the next is created, so nothing
\* keeps two names apart.
TmpNames == {<<"y", "b", "d", "n", "w", "a", "0", "m">>, <<"o", "z", "t", "w", "_", "1", "j", "q">>}
TmpPath(name, suffix) == <<"/", "t", "m", "p", "/", "t", "m", "p">> \o name \o suffix

KArgs == {NoK, 1}
Temperatures == {NoTemp, 70}

\* -------------------------------------------------------------------- state
VARIABLES
    fs,               \* the files on disk: path -> [exists, text]
    vectorstore,      \* self.vectorstore: [built, chunks]
    logger,           \* self.logger: what the pipeline was constructed with
    chroma_client,    \* the in-memory Chroma clients of this build: shared or fresh
    llm_temperature,  \* self.llm.temperature
    qa_logs,          \* table qa_logs, in id order
    qa_jsonl,         \* the lines of logs/qa.jsonl
    doc_state,        \* table doc_state: doc_id -> [path, content_hash]
    sync_runs,        \* table sync_runs, in id order
    indexed_docs,     \* history: the documents of the last ingestion that succeeded
    llm_calls,        \* history: the temperature of each llm.invoke, in order
    query_calls,      \* history: number of query() calls
    ingest_calls,     \* history: number of ingestion calls
    last,             \* history: the last call and its outcome
    sync_trace,       \* history: one entry per run of the sync command that ended
    sync,             \* the running sync command: its position and local variables
    writes,           \* history: number of file writes
    audit_calls,      \* history: the records given to SQLiteAudit.log called alone
    mf_call,          \* one call of load_manifest: path, file and result
    md_call           \* one call of load_markdown_with_sections: text and result

vars == <<fs, vectorstore, logger, chroma_client, llm_temperature, qa_logs, qa_jsonl,
          doc_state, sync_runs, indexed_docs, llm_calls, query_calls, ingest_calls, last, sync_trace, sync, writes,
          audit_calls, mf_call, md_call>>

pipeVars == <<vectorstore, logger, chroma_client, llm_temperature, qa_logs, qa_jsonl,
              indexed_docs, llm_calls, query_calls, ingest_calls, last>>
syncVars == <<doc_state, sync_runs, sync_trace, sync>>
fnVars == <<audit_calls, mf_call, md_call>>

\* a call of load_markdown_with_sections on a file with the lines `lines`
\* that has not run yet; no call
MdCall(lines) == [lines |-> lines, done |-> FALSE, docs |-> <<>>]
NoMd == MdCall(<<>>)

\* a call of load_manifest(path), with `file` at the path, that has not run
\* yet; no call
NoManifestResult == [raised |-> FALSE, error |-> "", parser |-> "none", docs |-> <<>>]
MfCall(path, file, pyyaml) ==
    [path |-> path, file |-> file, pyyaml |-> pyyaml, done |-> FALSE,
     result |-> NoManifestResult]
NoMf == MfCall(<<>>, [exists |-> FALSE, format |-> "", documents |-> <<>>], TRUE)

\* the empty doc_state table
NoDocState == [key \in {} |-> [path |-> <<>>, content_hash |-> <<>>]]

NoCall ==
    [op |-> "none", raised |-> FALSE, error |-> "", question |-> "", temperature |-> NoTemp,
     k |-> NoK, role |-> NoRole, content |-> <<>>, llmOk |-> TRUE,
     invoked |-> FALSE, invoked_t |-> NoTemp, logged |-> FALSE,
     answer |-> <<>>, sources |-> <<>>, retrieval |-> <<>>, retrieved |-> <<>>,
     best_score |-> 0, gated |-> <<>>, loaded |-> FALSE, splits |-> 0]

\* no sync command is running (the fields are described with main())
NoHashed == [doc_states |-> <<>>, errors |-> <<>>, changed |-> 0]
NoSync ==
    [pc |-> "idle", manifest |-> "", docs |-> <<>>, i |-> 0, hashed |-> NoHashed,
     loaded |-> <<>>, store |-> NoStore, files |-> [p \in Paths |-> NoFile],
     doc_state0 |-> NoDocState, w0 |-> 0]

\* the program after construction: RAGPipeline.__init__(logger), an empty
\* audit database, the files of the modelled world
Constructed ==
    /\ fs = InitialFiles
    /\ vectorstore = NoStore
    /\ logger \in Loggers
    /\ chroma_client \in ChromaClients
    /\ llm_temperature = TEMPERATURE
    /\ qa_logs = <<>>
    /\ qa_jsonl = <<>>
    /\ doc_state = NoDocState
    /\ sync_runs = <<>>
    /\ indexed_docs = <<>>
    /\ llm_calls = <<>>
    /\ query_calls = 0
    /\ ingest_calls = 0
    /\ last = NoCall
    /\ sync_trace = <<>>
    /\ sync = NoSync
    /\ writes = 0

Init == Constructed /\ md_call = NoMd /\ mf_call = NoMf /\ audit_calls = <<>>

\* ---------------------------------------------------------------- ingestion
\* The tail shared by the three ingestion methods: `loaded` is what the
\* loading loop produced; _index_documents then replaces self.vectorstore or
\* raises.
\* self.vectorstore after a failed ingestion call, were the call to clear it
StoreAfter_clearedOnFailure(current, r) ==
    IF r.ok THEN AssignVectorstore(current, r.store) ELSE NoStore

\* self.vectorstore after an ingestion call: line 197 is the only assignment,
\* and an exception raised before it leaves the attribute as it was
StoreAfter(current, r) ==
    IF r.ok THEN AssignVectorstore(current, r.store) ELSE current

Ingest(op, loaded, embedOk) ==
    \E r \in {IF loaded.ok
                THEN _index_documents(loaded.docs, vectorstore.chunks, chroma_client, embedOk)
                ELSE [ok |-> FALSE, error |-> "load", store |-> NoStore]} :
        /\ vectorstore' = StoreAfter(vectorstore, r)
        /\ indexed_docs' = IF r.ok THEN loaded.docs ELSE indexed_docs
        /\ last' = [NoCall EXCEPT !.op = op, !.raised = ~r.ok, !.error = r.error,
                                  !.loaded = loaded.ok,
                                  !.splits = Len(split_documents(loaded.docs))]
        /\ ingest_calls' = ingest_calls + 1
        /\ UNCHANGED <<fs, logger, chroma_client, llm_temperature, qa_logs, qa_jsonl, llm_calls,
                       query_calls, writes>>
        /\ UNCHANGED syncVars
        /\ UNCHANGED fnVars

\* tmp_names: the names tempfile chooses, one per upload
load_documents(uploaded_files, tmp_names, embedOk) ==
    Ingest("load_documents",
           LoadAll([i \in 1..Len(uploaded_files) |->
                      _load_path(TmpPath(tmp_names[i], Suffix(uploaded_files[i].name)),
                                 File(uploaded_files[i].text), uploaded_files[i].name)],
                   <<>>),
           embedOk)

load_manifest_paths(paths, embedOk) ==
    Ingest("load_manifest_paths",
           LoadAll([i \in 1..Len(paths) |-> LET p == ExpandUser(paths[i])
                                         IN  _load_path(p, fs[p], Basename(p))],
                   <<>>),
           embedOk)

\* the documents load_manifest_docs collects from the files `files`
ManifestLoads(manifest_docs, files) ==
    LoadAll([i \in 1..Len(manifest_docs) |->
               LET md == manifest_docs[i]
                   path == ExpandUser(md.path)
                   loaded == _load_path(path, files[path], Basename(path))
               IN  [ok |-> loaded.ok, docs |-> WithManifestMeta(loaded.docs, md)]],
            <<>>)

load_manifest_docs(manifest_docs, embedOk) ==
    Ingest("load_manifest_docs", ManifestLoads(manifest_docs, fs), embedOk)

\* the three ingestion calls on the modelled inputs
LoadDocumentsCall(batches) ==
    \E b \in batches, embedOk \in BOOLEAN :
        \E tmp_names \in [1..Len(b) -> TmpNames] : load_documents(b, tmp_names, embedOk)
LoadManifestPathsCall(batches) ==
    \E b \in batches, embedOk \in BOOLEAN : load_manifest_paths(b, embedOk)
LoadManifestDocsCall(manifests) ==
    \E m \in manifests, embedOk \in BOOLEAN : load_manifest_docs(Manifest(m), embedOk)

\* ingestion calls with every modelled input
IngestLoadDocuments == ingest_calls < MaxIngests /\ LoadDocumentsCall(UploadBatches)
IngestLoadManifestPaths == ingest_calls < MaxIngests /\ LoadManifestPathsCall(PathBatches)
IngestLoadManifestDocs == ingest_calls < MaxIngests /\ LoadManifestDocsCall(AppManifests)

\* ingestion calls with the inputs that matter to a sequence of calls: calls
\* that succeed, that fail, and one that indexes no chunk
HistoryUploads == {<<UploadedFile(<<"n", "o", "t", "e", "s", ".", "m", "d">>, Text_notes)>>,
                   <<UploadedFile(<<"o", "l", "d", ".", "d", "o", "c", "x">>, Text_low)>>}
HistoryPaths == {<<P_home, P_docx>>, <<P_gone>>, <<P_empty>>}
HistoryManifests == {"main.yaml"}
LoadDocuments == ingest_calls < MaxIngests /\ LoadDocumentsCall(HistoryUploads)
LoadManifestPaths == ingest_calls < MaxIngests /\ LoadManifestPathsCall(HistoryPaths)
LoadManifestDocs == ingest_calls < MaxIngests /\ LoadManifestDocsCall(HistoryManifests)

\* the calls of AnswerSpec, which bounds all calls together
AnswerCallsLeft == query_calls + ingest_calls < MaxAnswerCalls
AnswerUploads == {<<UploadedFile(<<"n", "o", "t", "e", "s", ".", "m", "d">>, Text_notes), UploadedFile(<<"l", "o", "w", ".", "t", "x", "t">>, Text_low)>>}
AnswerPaths == {<<P_home, P_docx>>, <<P_empty>>, <<P_pdf>>}
AnswerLoadDocuments == AnswerCallsLeft /\ LoadDocumentsCall(AnswerUploads)
AnswerLoadManifestPaths == AnswerCallsLeft /\ LoadManifestPathsCall(AnswerPaths)
AnswerLoadManifestDocs == AnswerCallsLeft /\ LoadManifestDocsCall(HistoryManifests)

\* -------------------------------------------------------------------- query
\* SQLiteAudit.log: INSERT with the next AUTOINCREMENT id
\* json.dumps(list of str, ensure_ascii=False): each string between double
\* quotes, the items joined by ", ".  Inside a string ", \ and the control
\* characters are escaped; of the control characters a string of this module
\* can hold newline, tab, carriage return and form feed (json.dumps writes
\* \b for backspace and \u00XX for the others).
JsonEscape(c) ==
    CASE c = "\"" -> <<"\\", "\"">>
      [] c = "\\" -> <<"\\", "\\">>
      [] c = "\n" -> <<"\\", "n">>
      [] c = "\r" -> <<"\\", "r">>
      [] c = "\t" -> <<"\\", "t">>
      [] c = "\f" -> <<"\\", "f">>
      [] OTHER -> <<c>>
RECURSIVE JsonEscaped(_)
JsonEscaped(s) == IF Len(s) = 0 THEN <<>> ELSE JsonEscape(Head(s)) \o JsonEscaped(Tail(s))
json_dumps(list) ==
    <<"[">> \o Join(<<",", " ">>, [i \in 1..Len(list) |-> <<"\"">> \o JsonEscaped(list[i]) \o <<"\"">>])
    \o <<"]">>

\* the character an escape \c stands for in json.loads: the escapes that
\* json.dumps writes for the strings of this module, and \/
JsonUnescape(c) ==
    CASE c = "\"" -> "\""
      [] c = "\\" -> "\\"
      [] c = "/" -> "/"
      [] c = "n" -> "\n"
      [] c = "r" -> "\r"
      [] c = "t" -> "\t"
      [] c = "f" -> "\f"

\* json.loads of a JSON list of strings, read from position i: `items` are
\* the strings closed so far, `cur` the open string when in_string
RECURSIVE JsonScan(_, _, _, _, _)
JsonScan(text, i, items, in_string, cur) ==
    IF i > Len(text) THEN items
    ELSE IF ~in_string
    THEN JsonScan(text, i + 1, items, text[i] = "\"", <<>>)
    ELSE IF text[i] = "\\"
    THEN JsonScan(text, i + 2, items, TRUE, Append(cur, JsonUnescape(text[i + 1])))
    ELSE IF text[i] = "\""
    THEN JsonScan(text, i + 1, Append(items, cur), FALSE, <<>>)
    ELSE JsonScan(text, i + 1, items, TRUE, Append(cur, text[i]))
json_loads(text) == JsonScan(text, 1, <<>>, FALSE, <<>>)

AuditLog(rows, rec) ==
    Append(rows, [id |-> Len(rows) + 1, question |-> rec.question, status |-> rec.status,
                  best_score |-> rec.best_score, k |-> rec.k,
                  sources_json |-> json_dumps(rec.sources), answer |-> rec.answer])

\* SQLiteAudit.recent with rows in the order of ascending id instead
recent_oldestFirst(rows, limit) ==
    LET n == IF limit < 0 \/ limit > Len(rows) THEN Len(rows) ELSE limit
    IN  [i \in 1..n |->
            [id |-> rows[i].id, status |-> rows[i].status, best_score |-> rows[i].best_score,
             k |-> rows[i].k, question |-> rows[i].question,
             sources |-> json_loads(rows[i].sources_json)]]

\* SQLiteAudit.recent: ORDER BY id DESC LIMIT limit (a negative LIMIT is no
\* limit in SQLite)
recent(rows, limit) ==
    LET n == IF limit < 0 \/ limit > Len(rows) THEN Len(rows) ELSE limit
    IN  [i \in 1..n |->
            LET r == rows[Len(rows) + 1 - i]
            IN  [id |-> r.id, status |-> r.status, best_score |-> r.best_score, k |-> r.k,
                 question |-> r.question, sources |-> json_loads(r.sources_json)]]

\* SQLiteAudit.get_answer: the answer of the row with the id, or None
get_answer(rows, row_id) ==
    IF \E i \in 1..Len(rows) : rows[i].id = row_id
    THEN [found |-> TRUE, answer |-> rows[CHOOSE i \in 1..Len(rows) : rows[i].id = row_id].answer]
    ELSE [found |-> FALSE, answer |-> <<>>]

\* what `self.vectorstore` is to the truth test of line 208: a Chroma store
\* without chunks is falsy in the library versions whose Chroma class defines
\* __len__ and truthy in the others
StoreViews(vs) == IF vs.built /\ vs.chunks = <<>> THEN {vs, NoStore} ELSE {vs}

QueryCall(question, temperature, kArg, role, embedOk, llmOk, content) ==
    \E view \in StoreViews(vectorstore) :
    \E r \in {query(view, llm_temperature, logger, question, temperature, kArg, role,
                     embedOk, llmOk, content)} :
        /\ llm_temperature' = r.llm_t
        /\ llm_calls' = IF r.invoked THEN Append(llm_calls, r.invoked_t) ELSE llm_calls
        /\ qa_logs' = IF r.logged THEN AuditLog(qa_logs, r.record) ELSE qa_logs
        /\ qa_jsonl' = IF r.logged THEN Append(qa_jsonl, r.record) ELSE qa_jsonl
        /\ query_calls' = query_calls + 1
        /\ last' = [op |-> "query", raised |-> r.raised, error |-> r.error,
                    question |-> question, temperature |-> temperature, k |-> EffectiveK(kArg),
                    role |-> role, content |-> content, llmOk |-> llmOk,
                    invoked |-> r.invoked, invoked_t |-> r.invoked_t, logged |-> r.logged,
                    answer |-> r.answer, sources |-> r.sources, retrieval |-> r.retrieval,
                    retrieved |-> r.retrieved, best_score |-> r.best_score, gated |-> r.gated,
                    loaded |-> FALSE, splits |-> 0]
        /\ UNCHANGED <<fs, vectorstore, logger, chroma_client, indexed_docs, ingest_calls,
                       writes>>
        /\ UNCHANGED syncVars
        /\ UNCHANGED fnVars

\* which backend call of a query() fails, if any
Faults == {"none", "embed", "llm"}
HistoryRoles == {NoRole}
HistoryKArgs == {NoK}

\* what the backends do in one query(): one of the calls fails, or none does
\* and llm.invoke returns one of `contents`
BackendOutcomes(contents) ==
    {[fault |-> f, content |-> <<>>] : f \in Faults \ {"none"}}
    \cup {[fault |-> "none", content |-> c] : c \in contents}

\* query() with the inputs that matter to a sequence of calls
Query ==
    /\ query_calls < MaxQueries
    /\ \E question \in Questions, temperature \in {NoTemp}, kArg \in HistoryKArgs,
          role \in HistoryRoles, o \in BackendOutcomes(HistoryOutputs) :
          QueryCall(question, temperature, kArg, role, o.fault # "embed", o.fault # "llm",
                    o.content)

\* query() with and without a temperature
TemperatureQuery ==
    /\ query_calls < MaxQueries
    /\ \E question \in Questions, temperature \in Temperatures, kArg \in HistoryKArgs,
          role \in HistoryRoles, o \in BackendOutcomes(HistoryOutputs) :
          QueryCall(question, temperature, kArg, role, o.fault # "embed", o.fault # "llm",
                    o.content)

\* query() with every modelled input
AnswerQuery ==
    /\ AnswerCallsLeft
    /\ \E question \in Questions, temperature \in {NoTemp}, kArg \in KArgs,
          role \in Roles, o \in BackendOutcomes(LLMOutputs) :
          QueryCall(question, temperature, kArg, role, o.fault # "embed", o.fault # "llm",
                    o.content)

\* --------------------------------------------------------------------- sync
\* file_hash(path): SHA-256 of the file's bytes, taken as one-to-one
file_hash(file) == <<"sha256", file.text>>

\* d.id or d.path
DocKey(d) == IF d.id # <<>> THEN d.id ELSE d.path

\* SQLiteAudit.get_doc_state: the row, or None
HasDocState(table, doc_id) == doc_id \in DOMAIN table

\* SQLiteAudit.upsert_doc_state
upsert_doc_state(table, doc_id, path, content_hash) ==
    [key \in DOMAIN table \cup {doc_id} |->
        IF key = doc_id THEN [path |-> path, content_hash |-> content_hash] ELSE table[key]]

\* one pass of the hashing loop of main() (lines 56-65): entry d, whose file
\* is `file` now, against the doc_state table as it is now
HashDoc(d, file, table, acc) ==
    IF file.exists
    THEN LET h == file_hash(file)
             is_changed == ~HasDocState(table, DocKey(d))
                           \/ table[DocKey(d)].content_hash # h
         IN  [acc EXCEPT !.changed = @ + (IF is_changed THEN 1 ELSE 0),
                         !.doc_states = Append(@, [doc_id |-> DocKey(d), path |-> d.path,
                                                   content_hash |-> h])]
    ELSE [acc EXCEPT !.errors = Append(@, [doc |-> d.path, error |-> "FileNotFoundError"])]

\* SQLiteAudit.log_sync_run
log_sync_run(rows, manifest_path, docs_total, docs_indexed, docs_failed, errors, changed_docs) ==
    Append(rows, [id |-> Len(rows) + 1, manifest_path |-> manifest_path,
                  docs_total |-> docs_total, docs_indexed |-> docs_indexed,
                  docs_failed |-> docs_failed, changed_docs |-> changed_docs,
                  errors |-> errors])

\* the process exit status of an uncaught exception
ExitUncaught == 1

\* The sync command is a process of its own.  main() reads the files one by
\* one in its hashing loop, constructs the pipeline, reads them again one by
\* one in load_manifest_docs, embeds, and then commits one transaction per
\* document and one for the run; files may be written in between.  `sync` is
\* where the running command stands:
\*   pc        "idle" (no run), "hash", "construct", "load", "index",
\*             "upsert" or "log": the statement that runs next
\*   i         the entry the loop at pc is at
\*   hashed    doc_states, errors and changed of lines 52-54
\*   loaded    docs of load_manifest_docs (line 151)
\*   store     the vectorstore of the pipeline of line 68 (the command is a
\*             process of its own: no earlier call has added to its collection)
\*   files, doc_state0, w0   history: the files, the doc_state table and the
\*             number of file writes when the run started
\* the statement after the loop at `pc` finished entry i of n
AfterEntry(pc, i, n, then) == IF i < n THEN pc ELSE then

\* the entry of sync_trace for the run that ends now
SyncEnded(completed, embedOk, exit, table, indexed) ==
    [manifest |-> sync.manifest, files |-> sync.files, w0 |-> sync.w0, w1 |-> writes,
     completed |-> completed, embedOk |-> embedOk, exit |-> exit,
     changed_docs |-> sync.hashed.changed, errors |-> sync.hashed.errors,
     doc_state0 |-> sync.doc_state0, doc_state |-> table, indexed |-> indexed]

\* an exception that main() does not catch ends the process
MainRaise(embedOk) ==
    /\ sync_trace' = Append(sync_trace,
                            SyncEnded(FALSE, embedOk, ExitUncaught, doc_state, <<>>))
    /\ sync' = NoSync
    /\ UNCHANGED <<doc_state, sync_runs>>

\* lines 42-54 of main(): the arguments, the audit database, the manifest
MainStart(manifest_path) ==
    /\ sync.pc = "idle"
    /\ sync' = [NoSync EXCEPT !.pc = AfterEntry("hash", 0, Len(Manifest(manifest_path)),
                                                "construct"),
                              !.manifest = manifest_path, !.docs = Manifest(manifest_path),
                              !.i = 1, !.files = fs, !.doc_state0 = doc_state,
                              !.w0 = writes]
    /\ UNCHANGED <<doc_state, sync_runs, sync_trace>>
    /\ UNCHANGED <<fs, writes>>
    /\ UNCHANGED pipeVars
    /\ UNCHANGED fnVars

\* lines 56-65: one entry of the hashing loop
MainHash ==
    /\ sync.pc = "hash"
    /\ sync' = [sync EXCEPT !.hashed = HashDoc(sync.docs[sync.i], fs[sync.docs[sync.i].path],
                                              doc_state, sync.hashed),
                            !.i = IF sync.i < Len(sync.docs) THEN sync.i + 1 ELSE 1,
                            !.pc = AfterEntry("hash", sync.i, Len(sync.docs), "construct")]
    /\ UNCHANGED <<doc_state, sync_runs, sync_trace>>
    /\ UNCHANGED <<fs, writes>>
    /\ UNCHANGED pipeVars
    /\ UNCHANGED fnVars

\* line 68: pipe = RAGPipeline()
MainConstruct ==
    /\ sync.pc = "construct"
    /\ sync' = [sync EXCEPT !.pc = AfterEntry("load", 0, Len(sync.docs), "index"),
                            !.i = 1, !.loaded = <<>>, !.store = NoStore]
    /\ UNCHANGED <<doc_state, sync_runs, sync_trace>>
    /\ UNCHANGED <<fs, writes>>
    /\ UNCHANGED pipeVars
    /\ UNCHANGED fnVars

\* line 69, lines 152-162 of load_manifest_docs: one entry of the loading loop
MainLoad ==
    /\ sync.pc = "load"
    /\ \E md \in {sync.docs[sync.i]} :
       \E path \in {ExpandUser(md.path)} :
       \E loaded \in {_load_path(path, fs[path], Basename(path))} :
          IF ~loaded.ok THEN MainRaise(TRUE)
          ELSE /\ sync' = [sync EXCEPT !.loaded = @ \o WithManifestMeta(loaded.docs, md),
                                       !.i = IF sync.i < Len(sync.docs) THEN sync.i + 1 ELSE 1,
                                       !.pc = AfterEntry("load", sync.i, Len(sync.docs),
                                                         "index")]
               /\ UNCHANGED <<doc_state, sync_runs, sync_trace>>
    /\ UNCHANGED <<fs, writes>>
    /\ UNCHANGED pipeVars
    /\ UNCHANGED fnVars

\* line 69, line 163 of load_manifest_docs: _index_documents(docs)
MainIndex ==
    /\ sync.pc = "index"
    /\ \E embedOk \in BOOLEAN :
       \E r \in {_index_documents(sync.loaded, sync.store.chunks, chroma_client, embedOk)} :
          IF ~r.ok THEN MainRaise(r.error # "embedding")
          ELSE /\ sync' = [sync EXCEPT !.store = StoreAfter(sync.store, r), !.i = 1,
                                       !.pc = AfterEntry("upsert", 0,
                                                         Len(sync.hashed.doc_states), "log")]
               /\ UNCHANGED <<doc_state, sync_runs, sync_trace>>
    /\ UNCHANGED <<fs, writes>>
    /\ UNCHANGED pipeVars
    /\ UNCHANGED fnVars

\* lines 72-73: one entry of the upsert loop, a transaction of its own
MainUpsert ==
    /\ sync.pc = "upsert"
    /\ \E s \in {sync.hashed.doc_states[sync.i]} :
          doc_state' = upsert_doc_state(doc_state, s.doc_id, s.path, s.content_hash)
    /\ sync' = [sync EXCEPT !.i = IF sync.i < Len(sync.hashed.doc_states) THEN sync.i + 1
                                  ELSE 1,
                            !.pc = AfterEntry("upsert", sync.i, Len(sync.hashed.doc_states),
                                              "log")]
    /\ UNCHANGED <<sync_runs, sync_trace>>
    /\ UNCHANGED <<fs, writes>>
    /\ UNCHANGED pipeVars
    /\ UNCHANGED fnVars

\* lines 75-97: the sync_runs row, the report, the exit status
MainLogRun ==
    /\ sync.pc = "log"
    /\ sync_runs' = log_sync_run(sync_runs, sync.manifest, Len(sync.docs),
                                 Len(sync.docs) - Len(sync.hashed.errors),
                                 Len(sync.hashed.errors), sync.hashed.errors,
                                 sync.hashed.changed)
    /\ sync_trace' = Append(sync_trace,
                            SyncEnded(TRUE, TRUE,
                                      IF Len(sync.hashed.errors) = 0 THEN 0 ELSE 1,
                                      doc_state, sync.store.chunks))
    /\ sync' = NoSync
    /\ UNCHANGED doc_state
    /\ UNCHANGED <<fs, writes>>
    /\ UNCHANGED pipeVars
    /\ UNCHANGED fnVars

\* the sync command is started on a manifest
SyncStart ==
    /\ Len(sync_trace) < MaxSyncs
    /\ \E m \in SyncManifests : MainStart(m)

\* somebody edits a knowledge-base file, at any time
WritablePaths == {P_pub}
NewTexts == {Text_pub2}
WriteFile ==
    /\ writes < MaxWrites
    /\ \E p \in WritablePaths, text \in NewTexts :
          /\ fs[p] # File(text)
          /\ fs' = [fs EXCEPT ![p] = File(text)]
    /\ writes' = writes + 1
    /\ UNCHANGED pipeVars
    /\ UNCHANGED syncVars
    /\ UNCHANGED fnVars

\* ------------------------------------------------ the markdown loader alone
\* lines of markdown files, and the files of at most MaxLines of them
MdLines == {<<"#", " ", "A">>, <<"#", "#", " ", "B">>, <<"#", "#", "#", " ", "C">>, <<"x">>, <<>>, <<"#", "y">>, <<" ", "z", "\t">>}
MdTexts == UNION {[1..n -> MdLines] : n \in 0..MaxLines}
MdSource == <<"d", "o", "c", ".", "m", "d">>

\* load_markdown_with_sections(path, source_name) on the file read at `path`
LoadMarkdown ==
    /\ ~md_call.done
    /\ UNCHANGED <<mf_call, audit_calls>>
    /\ md_call' = [md_call EXCEPT !.done = TRUE,
                                  !.docs = load_markdown_with_sections(ReadLines(md_call.lines), MdSource)]
    /\ UNCHANGED <<fs, writes>>
    /\ UNCHANGED pipeVars
    /\ UNCHANGED syncVars

\* ------------------------------------------------- the manifest loader alone
\* Path(path).name: the last component, where pathlib has dropped trailing
\* slashes and "." components
RECURSIVE PathName(_)
PathName(path) ==
    IF Len(path) = 0 THEN <<>>
    ELSE IF path[Len(path)] = "/" \/ Basename(path) = <<".">>
    THEN PathName(SubSeq(path, 1, Len(path) - 1))
    ELSE Basename(path)

\* Path(path).suffix: from the last dot of the name, "" when the name has no
\* dot, starts with its only dot or ends with a dot
PathSuffix(path) ==
    LET name == PathName(path)
        dots == {i \in 1..Len(name) : name[i] = "."}
        last_dot == IF dots = {} THEN 0 ELSE CHOOSE i \in dots : \A j \in dots : j <= i
    IN  IF 1 < last_dot /\ last_dot < Len(name) THEN SubSeq(name, last_dot, Len(name))
        ELSE <<>>

\* A manifest file's text is one of: a JSON object whose "documents" is a list
\* of path strings ("json"), a YAML mapping whose "documents" is a list of
\* mappings ("yaml", not JSON), or text that is neither ("text").  A path
\* string of a JSON list is written as an entry that has only its path.
BarePath(path) == [id |-> <<>>, title |-> <<>>, path |-> path, tags |-> <<>>,
                   allowed_roles |-> <<>>]
ManifestFile(format, documents) == [exists |-> TRUE, format |-> format, documents |-> documents]
NoManifestFile == [exists |-> FALSE, format |-> "", documents |-> <<>>]

\* _load_json: json.loads raises on what is not JSON
_load_json(file) ==
    IF file.format = "json"
    THEN [raised |-> FALSE, error |-> "", parser |-> "json",
          docs |-> [i \in 1..Len(file.documents) |->
                      ManifestDoc(<<>>, <<>>, file.documents[i].path, <<>>, <<>>)]]
    ELSE [raised |-> TRUE, error |-> "JSONDecodeError", parser |-> "json", docs |-> <<>>]

\* _load_yaml: the import fails where PyYAML is not installed; a YAML mapping
\* gives the entries with their metadata; JSON is YAML too, but its entries
\* are strings, and plain text loads as a string: both fail at `.get`
_load_yaml(file, pyyaml) ==
    IF ~pyyaml
    THEN [raised |-> TRUE, error |-> "RuntimeError", parser |-> "none", docs |-> <<>>]
    ELSE IF file.format = "yaml"
    THEN [raised |-> FALSE, error |-> "", parser |-> "yaml", docs |-> file.documents]
    ELSE IF file.format = "json" /\ file.documents = <<>>
    THEN [raised |-> FALSE, error |-> "", parser |-> "yaml", docs |-> <<>>]
    ELSE [raised |-> TRUE, error |-> "AttributeError", parser |-> "yaml", docs |-> <<>>]

\* load_manifest(path) with `file` at the path; pyyaml: PyYAML is installed
load_manifest(path, file, pyyaml) ==
    IF ~file.exists
    THEN [raised |-> TRUE, error |-> "FileNotFoundError", parser |-> "none", docs |-> <<>>]
    ELSE IF Lower(PathSuffix(path)) \in {<<".", "y", "a", "m", "l">>, <<".", "y", "m", "l">>}
    THEN _load_yaml(file, pyyaml)
    ELSE _load_json(file)

ManifestPaths ==
    {<<"m", ".", "j", "s", "o", "n">>, <<"m", ".", "J", "S", "O", "N">>, <<"m", ".", "y", "a", "m", "l">>, <<"m", ".", "y", "m", "l">>, <<"m", ".", "Y", "A", "M", "L">>, <<"k", "b", "/", "m", ".", "Y", "m", "l">>, <<"m", ".", "t", "x", "t">>,
     <<"m", ".", "t", "o", "m", "l">>, <<"m", ".", "m", "d">>, <<"m">>, <<".", "y", "a", "m", "l">>, <<"m", ".", "y", "a", "m", "l", ".", "b", "a", "k">>, <<"m", ".", "y", "a", "m", "l", "/">>, <<"k", "b", "/", ".", "/", "m", ".", "b", "/">>}
ManifestFiles ==
    {NoManifestFile,
     ManifestFile("json", <<>>),
     ManifestFile("json", <<BarePath(P_pub), BarePath(P_low)>>),
     ManifestFile("yaml", Manifest("main.yaml")),
     ManifestFile("text", <<>>)}

LoadManifest ==
    /\ ~mf_call.done
    /\ mf_call.path # <<>>
    /\ mf_call' = [mf_call EXCEPT !.done = TRUE,
                                  !.result = load_manifest(mf_call.path, mf_call.file,
                                                         mf_call.pyyaml)]
    /\ UNCHANGED <<md_call, audit_calls>>
    /\ UNCHANGED <<fs, writes>>
    /\ UNCHANGED pipeVars
    /\ UNCHANGED syncVars

\* ---------------------------------------------------- the audit store alone
\* records given to SQLiteAudit.log: sources with the characters JSON
\* escapes or separates by, answers, both statuses
AuditRecords ==
    {QALogRecord("q1", "answered", 90, 5,
                 <<<<"Q", "C", " ", "S", "O", "P", " ", "(", "c", "h", "u", "n", "k", " ", "1", ",", " ", "s", "e", "c", "t", "i", "o", "n", " ", "Q", "C", ")">>, <<"p", "u", "b", ".", "M", "D", " ", "(", "c", "h", "u", "n", "k", " ", "1", ")">>>>, Out_own),
     QALogRecord("q2", "answered", 35, 1, <<<<"a", " ", "\"", "b", "\"", ",", " ", "c", "\\", "d">>>>, Out_plain),
     QALogRecord("q3", "answered", 35, 5, <<<<"x", "\n", "y">>, <<>>, <<"]">>>>, Out_bracket),
     QALogRecord("q3", "answered", 90, 5, <<<<"A", "\t", "B", " ", "(", "c", "h", "u", "n", "k", " ", "1", ",", " ", "s", "e", "c", "t", "i", "o", "n", " ", "A", "\t", "B", ")">>, <<"c", "\r", "\f", "/", "d">>>>, Out_cite1),
     QALogRecord("q1", "not_in_kb", 20, 5, <<>>, ABSTAIN),
     QALogRecord("q2", "not_in_kb", 0, 1, <<>>, ABSTAIN)}

\* SQLiteAudit.log(rec) called on its own
LogRecord ==
    /\ Len(audit_calls) < MaxLogs
    /\ \E rec \in AuditRecords :
          /\ qa_logs' = AuditLog(qa_logs, rec)
          /\ audit_calls' = Append(audit_calls, rec)
    /\ UNCHANGED <<fs, vectorstore, logger, chroma_client, llm_temperature, qa_jsonl,
                   indexed_docs, llm_calls,
                   query_calls, ingest_calls, last, writes, mf_call, md_call>>
    /\ UNCHANGED syncVars

\* ------------------------------------- ingestion calls and sync runs together
\* the rebuilds so far: ingestion calls, sync runs ended and the one running
RebuildsLeft ==
    ingest_calls + Len(sync_trace) + (IF sync.pc = "idle" THEN 0 ELSE 1) < MaxRebuilds
RebuildPaths == {<<P_home, P_docx>>, <<P_gone>>}
RebuildLoadDocuments == RebuildsLeft /\ LoadDocumentsCall(HistoryUploads)
RebuildLoadManifestPaths == RebuildsLeft /\ LoadManifestPathsCall(RebuildPaths)
RebuildLoadManifestDocs == RebuildsLeft /\ LoadManifestDocsCall(HistoryManifests)
RebuildManifests == {"main.yaml", "miss.yaml"}
RebuildSyncStart == RebuildsLeft /\ \E m \in RebuildManifests : MainStart(m)

\* ----------------------------------------------------------- specifications
Next == LoadDocuments \/ LoadManifestPaths \/ LoadManifestDocs \/ Query
Spec == Init /\ [][Next]_vars

\* ingestion calls alone, with every modelled input
IngestNext == IngestLoadDocuments \/ IngestLoadManifestPaths \/ IngestLoadManifestDocs
IngestSpec == Init /\ [][IngestNext]_vars

AnswerNext ==
    AnswerLoadDocuments \/ AnswerLoadManifestPaths \/ AnswerLoadManifestDocs \/ AnswerQuery
AnswerSpec == Init /\ [][AnswerNext]_vars

\* queries with and without a temperature on a pipeline fed from manifests
TemperatureNext == LoadManifestDocs \/ TemperatureQuery
TemperatureSpec == Init /\ [][TemperatureNext]_vars

SyncNext ==
    \/ SyncStart \/ MainHash \/ MainConstruct \/ MainLoad \/ MainIndex \/ MainUpsert
    \/ MainLogRun \/ WriteFile
SyncSpec == Init /\ [][SyncNext]_vars

\* load_markdown_with_sections on every text of MdTexts
MarkdownInit ==
    Constructed /\ md_call \in {MdCall(lines) : lines \in MdTexts} /\ mf_call = NoMf /\ audit_calls = <<>>
MarkdownNext == LoadMarkdown
MarkdownSpec == MarkdownInit /\ [][MarkdownNext]_vars

\* load_manifest on every path of ManifestPaths with every file of ManifestFiles
ManifestInit ==
    /\ Constructed
    /\ md_call = NoMd
    /\ audit_calls = <<>>
    /\ mf_call \in {MfCall(path, file, pyyaml) :
                       path \in ManifestPaths, file \in ManifestFiles, pyyaml \in BOOLEAN}
ManifestNext == LoadManifest
ManifestSpec == ManifestInit /\ [][ManifestNext]_vars

\* sequences of SQLiteAudit.log calls on an empty audit database
AuditNext == LogRecord
AuditSpec == Init /\ [][AuditNext]_vars

\* the app's pipeline ingesting and the sync command running, in any order
RebuildNext ==
    \/ RebuildLoadDocuments \/ RebuildLoadManifestPaths \/ RebuildLoadManifestDocs
    \/ RebuildSyncStart \/ MainHash \/ MainConstruct \/ MainLoad \/ MainIndex \/ MainUpsert
    \/ MainLogRun
RebuildSpec == Init /\ [][RebuildNext]_vars

\* =================================================================== claims
\* the last call was a query() whose retrieval step returned
RetrievalDone == last.op = "query" /\ last.error \notin {"no_index", "embedding"}

\* this step is a call of query()
QueryStep == query_calls' = query_calls + 1

\* the newest row of qa_logs
NewestLog == qa_logs[Len(qa_logs)]

\* C1 (as claimed): a query() on a built index whose retrieval is empty or
\* whose rank-1 score is strictly below the threshold returns the fixed
\* abstention answer with sources == [] and the retrieval trace, appends
\* exactly one audit record, with status not_in_kb, and does not invoke the
\* generation backend.
C1_AbstentionBelowThreshold ==
    [][(/\ QueryStep
        /\ RetrievalDone'
        /\ \/ last'.retrieved = <<>>
           \/ last'.retrieved[1].score < RETRIEVAL_THRESHOLD)
       => /\ ~last'.raised
          /\ last'.answer = ABSTAIN
          /\ last'.sources = <<>>
          /\ last'.retrieval = _serialize_retrieval(last'.retrieved)
          /\ Len(qa_logs') = Len(qa_logs) + 1
          /\ SubSeq(qa_logs', 1, Len(qa_logs)) = qa_logs
          /\ qa_logs'[Len(qa_logs')].status = "not_in_kb"
          /\ json_loads(qa_logs'[Len(qa_logs')].sources_json) = <<>>
          /\ qa_logs'[Len(qa_logs')].answer = ABSTAIN
          /\ llm_calls' = llm_calls
          /\ ~last'.invoked]_vars

\* the generation backend returned a text to the last query()
Generated == last.op = "query" /\ last.invoked /\ last.llmOk

\* C2 (as claimed): when the generated text has no well-formed citation
\* token [S<digits>] and is not an abstention, the answer returned
\* and the answer written to the audit record are the abstention string.
C2_GateSubstitutesAbstention ==
    (/\ Generated
     /\ _extract_citation_tokens(last.content) = <<>>
     /\ ~Contains(last.content, <<"N", "o", "t", " ", "i", "n", " ", "K", "B", " ", "y", "e", "t">>))
    => /\ ~last.raised
       /\ last.answer = ABSTAIN
       /\ Len(qa_logs) > 0
       /\ NewestLog.answer = ABSTAIN

\* every candidate of the last retrieval: the top max(3k, k) of the index
Candidates ==
    similarity_search_with_relevance_scores(vectorstore.chunks, last.question,
                                            Max2(3 * last.k, last.k))

RetrievedDocs == [i \in 1..Len(last.retrieved) |-> last.retrieved[i].doc]
RoleUnset == last.role = NoRole \/ last.role = "(all)"

\* C3: retrieve() never returns a chunk whose non-empty allowedRoles lacks
\* the requesting role; a chunk with empty allowedRoles is never removed by
\* the filter (it is returned unless k results precede it); with no role or
\* "(all)" no chunk is removed by the filter.
C3_RoleFiltering ==
    RetrievalDone =>
        /\ ~RoleUnset =>
              \A i \in 1..Len(last.retrieved) :
                 \/ last.retrieved[i].doc.metadata.allowed_roles = <<>>
                 \/ InList(last.role, last.retrieved[i].doc.metadata.allowed_roles)
        /\ \A j \in 1..Len(Candidates) :
              (RoleUnset \/ Candidates[j].doc.metadata.allowed_roles = <<>>)
              => \/ InList(Candidates[j].doc, RetrievedDocs)
                 \/ /\ Len(last.retrieved) = last.k
                    /\ \A i \in 1..last.k : last.retrieved[i].score >= Candidates[j].score
        /\ RoleUnset => RetrievedDocs = [i \in 1..Len(Take(Candidates, last.k)) |-> Candidates[i].doc]

\* C3 witness: role "warehouse" asked an index that holds chunks restricted
\* to "qc" and an unrestricted chunk, and got the unrestricted one
C3_Witness ==
    /\ RetrievalDone
    /\ last.role = "warehouse"
    /\ \E j \in 1..Len(Candidates) : Candidates[j].doc.metadata.allowed_roles = <<"qc">>
    /\ Len(last.retrieved) = 1
    /\ last.retrieved[1].doc.metadata.allowed_roles = <<>>

\* C4: query() invokes the generation backend exactly when retrieval is
\* non-empty and the rank-1 score is >= the threshold; a best score equal to
\* the threshold goes on to generation.
C4_InclusiveThreshold ==
    [][QueryStep =>
        /\ llm_calls' = llm_calls \/ Len(llm_calls') = Len(llm_calls) + 1
        /\ (Len(llm_calls') = Len(llm_calls) + 1)
           <=> (/\ RetrievalDone'
                /\ last'.retrieved # <<>>
                /\ last'.retrieved[1].score >= RETRIEVAL_THRESHOLD)]_vars

\* C4 witness: a query whose best score equals the threshold reached the
\* generation backend
C4_Witness ==
    /\ RetrievalDone
    /\ last.retrieved # <<>>
    /\ last.retrieved[1].score = RETRIEVAL_THRESHOLD
    /\ last.invoked
    /\ Len(llm_calls) = 1

\* the ranks a text cites: the number of every token [S<digits>]
CitedRanks(text) ==
    LET tokens == _extract_citation_tokens(text)
    IN  {IntOf(SubSeq(tokens[i], 3, Len(tokens[i]) - 1)) : i \in 1..Len(tokens)}

\* the refs of the retrieved chunks whose rank is in `ranks`, in rank order
RefsOfRanks(ranks) ==
    LET Cited(r) == r.idx \in ranks
        cited == SelectSeq(last.retrieved, Cited)
    IN  [i \in 1..Len(cited) |-> Ref(cited[i])]

\* C5 (as claimed): for a query() that reaches generation, when the answer
\* cites at least one rank the returned sources are exactly the refs of the
\* retrieved chunks whose rank is cited, in rank order; when it cites none
\* and is not an abstention, sources lists all retrieved chunks.
C5_SourceReconciliation ==
    Generated =>
        /\ CitedRanks(Strip(last.content)) # {}
           => /\ ~last.raised
              /\ last.sources = RefsOfRanks(CitedRanks(Strip(last.content)))
        /\ (/\ CitedRanks(Strip(last.content)) = {}
            /\ Contains(Strip(last.content), <<"[", "S">>))
           => /\ ~last.raised
              /\ last.sources = RefsOfRanks(1..Len(last.retrieved))

\* C6 (as claimed): there is exactly one audit record per query() call,
\* failed calls included.
C6_OneRecordPerQuery == Len(qa_logs) = query_calls

\* a chunk without its number, and the (text, metadata) pieces of documents
Unnumbered(chunk) == Document(chunk.page_content, [chunk.metadata EXCEPT !.chunk = 0])
PiecesOf(documents) ==
    UNION {{Document(documents[i].page_content[j], documents[i].metadata) :
               j \in 1..Len(documents[i].page_content)} : i \in 1..Len(documents)}

\* C7 (as claimed): after any sequence of ingestion calls the index holds,
\* and retrieval returns, only chunks of the most recent successful ingestion
\* call: no chunk of an earlier batch stays in the index.
C7_IndexReplacement ==
    LET batch == PiecesOf(indexed_docs)
    IN  /\ \A i \in 1..Len(vectorstore.chunks) : Unnumbered(vectorstore.chunks[i]) \in batch
        /\ Len(vectorstore.chunks) = Len(split_documents(indexed_docs))
        /\ last.op = "query" =>
              \A i \in 1..Len(last.retrieved) : Unnumbered(last.retrieved[i].doc) \in batch

\* the content hashes of a doc_state table
Hashes(table) == [key \in DOMAIN table |-> table[key].content_hash]

\* C8 (as claimed): when sync runs twice on the same manifest and no file
\* is written from the start of the first run to the end of the second, the
\* second run records changedDocs == 0 and leaves every doc_state hash as the
\* first run left it, whatever the manifest.
C8_SyncIdempotent ==
    \A i \in 1..(Len(sync_trace) - 1) :
        (/\ sync_trace[i].manifest = sync_trace[i + 1].manifest
         /\ sync_trace[i].w0 = sync_trace[i + 1].w1
         /\ sync_trace[i].completed
         /\ sync_trace[i + 1].completed)
        => /\ sync_trace[i + 1].changed_docs = 0
           /\ Hashes(sync_trace[i + 1].doc_state) = Hashes(sync_trace[i].doc_state)

\* the entries of a run's manifest whose file could not be read
Unreadable(run) ==
    {i \in 1..Len(Manifest(run.manifest)) : ~run.files[Manifest(run.manifest)[i].path].exists}

\* C9 (as claimed): a sync run in which one document cannot be read or
\* loaded is not aborted: the other documents are indexed and their DocState
\* upserted, one SyncRun row lists the failure, and the run signals failure;
\* a run without per-document errors signals success.
C9_SyncPartialFailure ==
    \A n \in 1..Len(sync_trace) :
        LET run == sync_trace[n]
            docs == Manifest(run.manifest)
        IN  run.embedOk =>
              /\ Cardinality(Unreadable(run)) = 1 =>
                    /\ run.completed
                    /\ run.exit # 0
                    /\ Len(run.errors) = 1
                    /\ \A i \in (1..Len(docs)) \ Unreadable(run) :
                          /\ DocKey(docs[i]) \in DOMAIN run.doc_state
                          /\ \E c \in 1..Len(run.indexed) :
                                run.indexed[c].metadata.source = Basename(docs[i].path)
              /\ Unreadable(run) = {} => run.exit = 0

\* C10: retrieve(question, k, role) returns at most k results, in
\* non-increasing score order, ranked 1..n in list order, and they are the
\* first k role-visible entries of the top max(3k, k) of the index.
C10_RetrieveContract ==
    RetrievalDone =>
        LET visible == {j \in 1..Len(Candidates) :
                          \/ RoleUnset
                          \/ Candidates[j].doc.metadata.allowed_roles = <<>>
                          \/ InList(last.role, Candidates[j].doc.metadata.allowed_roles)}
            n == Len(last.retrieved)
        IN  /\ n <= last.k
            /\ n = (IF Cardinality(visible) < last.k THEN Cardinality(visible) ELSE last.k)
            /\ \A i \in 1..n : last.retrieved[i].idx = i
            /\ \A i \in 1..(n - 1) : last.retrieved[i].score >= last.retrieved[i + 1].score
            /\ \A i \in 1..n :
                  \E j \in visible :
                     /\ Candidates[j].doc = last.retrieved[i].doc
                     /\ Candidates[j].score = last.retrieved[i].score
                     /\ Cardinality({m \in visible : m < j}) = i - 1

\* C10 witness: with k = 1 the two best chunks of the index are hidden from
\* the role and the third of the top 3k is returned as rank 1
C10_Witness ==
    /\ RetrievalDone
    /\ last.k = 1
    /\ last.role = "warehouse"
    /\ Len(vectorstore.chunks) > 3
    /\ Len(last.retrieved) = 1
    /\ last.retrieved[1].doc = Candidates[3].doc
    /\ last.retrieved[1].idx = 1

\* the ingestion methods
IngestOps == {"load_documents", "load_manifest_paths", "load_manifest_docs"}

ChunkNumbersOf(chunks, src) ==
    LET Of(c) == c.metadata.source = src
        of == SelectSeq(chunks, Of)
    IN  [i \in 1..Len(of) |-> of[i].metadata.chunk]

\* the chunks of the batch of the last successful ingestion call: the chunks
\* the call added to the index, which are the last of it
BatchChunks ==
    LET n == Len(split_documents(indexed_docs))
        total == Len(vectorstore.chunks)
    IN  SubSeq(vectorstore.chunks, total - n + 1, total)

\* C12: after any ingestion call the chunks of the batch are stored in
\* document order, and the chunk numbers of the chunks of the batch that
\* share a source are 1, 2, ..., n in that order (distinct, from 1, without
\* gaps, increasing), also when several documents or segments share the
\* source name.
C12_ChunkNumbering ==
    /\ [i \in 1..Len(BatchChunks) |-> Unnumbered(BatchChunks[i])]
       = split_documents(indexed_docs)
    /\ \A i \in 1..Len(BatchChunks) :
          LET numbers == ChunkNumbersOf(BatchChunks, BatchChunks[i].metadata.source)
          IN  numbers = [n \in 1..Len(numbers) |-> n]

\* C12 witness: the index built from same.json, whose two entries name the
\* same file: two documents share the source and their chunks are 1 and 2
C12_Witness ==
    /\ last.op = "load_manifest_docs"
    /\ ~last.raised
    /\ Len(indexed_docs) = 2
    /\ indexed_docs[1].metadata.source = indexed_docs[2].metadata.source
    /\ Len(vectorstore.chunks) = 2
    /\ vectorstore.chunks[2].metadata.chunk = 2

\* the lines of the markdown call, matched against the heading pattern
MdRead == ReadLines(md_call.lines)
HeadingAt(p) == MdRead[p].kind = "h"

\* the body of the block that starts at p (0 is the start of the document,
\* otherwise p is a heading): the lines up to the next heading
BodyEnd(p) ==
    LET later == {q \in (p + 1)..Len(MdRead) : HeadingAt(q)}
    IN  IF later = {} THEN Len(MdRead)
        ELSE (CHOOSE q \in later : \A r \in later : q <= r) - 1
BodyOf(p) == SubSeq(MdRead, p + 1, BodyEnd(p))

\* the blocks whose body is not blank after trimming, in document order
RECURSIVE BlocksFrom(_)
BlocksFrom(p) ==
    IF p > Len(MdRead) THEN <<>>
    ELSE (IF (p = 0 \/ HeadingAt(p)) /\ Pieces(BodyOf(p)) # <<>> THEN <<p>> ELSE <<>>)
         \o BlocksFrom(p + 1)
Blocks == BlocksFrom(0)

\* the heading that is the parent of the heading at p: the nearest earlier
\* heading of a lower level (0 when there is none)
ParentOf(p) ==
    LET above == {q \in 1..(p - 1) : HeadingAt(q) /\ MdRead[q].level < MdRead[p].level}
    IN  IF above = {} THEN 0 ELSE CHOOSE q \in above : \A r \in above : r <= q

\* the titles of the ancestors of the heading at p and its own, outermost first
RECURSIVE TitlesTo(_)
TitlesTo(p) == IF p = 0 THEN <<>> ELSE Append(TitlesTo(ParentOf(p)), MdRead[p].title)

\* C13 (as claimed): the section path of every emitted segment is the
\* " > "-joined titles, outermost first, of the heading the segment stands
\* under and of that heading's ancestors only: no title of an earlier heading
\* of the same or a deeper level stays in the path, whatever the order of
\* the heading levels.
C13_SectionPathAncestorsOnly ==
    (md_call.done /\ Blocks # <<>>) =>
        \A i \in 1..Len(Blocks) :
            i <= Len(md_call.docs) =>
                md_call.docs[i].metadata.section_path
                = Join(<<" ", ">", " ">>, TitlesTo(Blocks[i]))

\* C17 (as claimed): the segmenter emits exactly one segment per block of
\* lines between headings whose body is not blank, in document order, and
\* none otherwise: a text without headings gives one segment with an empty
\* section path when it is not blank and none when it is blank, and a
\* heading directly followed by another heading gives no segment.
C17_SegmentPerNonBlankBlock ==
    md_call.done =>
        /\ Len(md_call.docs) = Len(Blocks)
        /\ \A i \in 1..Len(Blocks) :
              i <= Len(md_call.docs) =>
                 md_call.docs[i].page_content = StripEnds(Pieces(BodyOf(Blocks[i])))
        /\ (\A p \in 1..Len(MdRead) : ~HeadingAt(p)) =>
              \A i \in 1..Len(md_call.docs) : md_call.docs[i].metadata.section_path = <<>>

\* C14 (as claimed): a query() called without a temperature invokes the
\* generation backend with the configured default, whatever temperatures
\* earlier queries were given; a query() called with a temperature invokes it
\* with that temperature.
C14_TemperatureFallback ==
    (last.op = "query" /\ last.invoked) =>
        last.invoked_t = (IF last.temperature = NoTemp THEN TEMPERATURE ELSE last.temperature)

\* the extensions of the two recognized manifest formats
ManifestExtensions == {<<".", "j", "s", "o", "n">>, <<".", "y", "a", "m", "l">>, <<".", "y", "m", "l">>}

\* C15 (as claimed): load_manifest(path) fails with the not-found error when
\* the path does not exist, and with the unsupported-format error, without
\* parsing the file, for every existing path whose extension is not one of
\* the recognized manifest formats.
C15_ManifestFormatErrors ==
    mf_call.done =>
        /\ ~mf_call.file.exists =>
              /\ mf_call.result.raised
              /\ mf_call.result.error = "FileNotFoundError"
        /\ (mf_call.file.exists /\ Lower(PathSuffix(mf_call.path)) \notin ManifestExtensions) =>
              /\ mf_call.result.raised
              /\ mf_call.result.error = "UnsupportedFormatError"
              /\ mf_call.result.parser = "none"

\* the summary recent() owes for a record logged under the id
SummaryOf(rec, id) ==
    [id |-> id, status |-> rec.status, best_score |-> rec.best_score, k |-> rec.k,
     question |-> rec.question, sources |-> rec.sources]

\* C16: after any sequence of log(record) calls, recent(n) returns the
\* min(n, total) most recently logged records, newest first, each with the
\* question, status, best score, k and sources that were logged; get_answer(id)
\* returns the answer logged under that id and nothing for an id never
\* assigned.
C16_AuditRoundTrip ==
    LET total == Len(audit_calls)
    IN  /\ \A n \in 0..(total + 1) :
              LET got == recent(qa_logs, n)
              IN  /\ Len(got) = (IF n < total THEN n ELSE total)
                  /\ \A i \in 1..Len(got) :
                        got[i] = SummaryOf(audit_calls[total + 1 - i], total + 1 - i)
        /\ \A id \in 0..(total + 1) :
              IF id \in 1..total
              THEN get_answer(qa_logs, id) = [found |-> TRUE, answer |-> audit_calls[id].answer]
              ELSE ~get_answer(qa_logs, id).found

\* C16 witness: three records were logged, the newest with sources that hold
\* quotes, a comma and a backslash; recent(2) lists it first
C16_Witness ==
    /\ Len(audit_calls) = 3
    /\ audit_calls[3].sources = <<<<"a", " ", "\"", "b", "\"", ",", " ", "c", "\\", "d">>>>
    /\ audit_calls[2] # audit_calls[3]
    /\ Len(recent(qa_logs, 2)) = 2
    /\ recent(qa_logs, 2)[1].sources = audit_calls[3].sources
    /\ get_answer(qa_logs, 3).answer = audit_calls[3].answer

\* no ingestion call has succeeded so far
NeverIndexed == indexed_docs = <<>>

\* C18: a query() (and the retrieve() inside it) on a pipeline on which no
\* ingestion call has succeeded yet, failed attempts included, fails with the
\* no-index error, and the generation backend is not invoked.
C18_NoIndexError ==
    [][(QueryStep /\ NeverIndexed)
       => /\ last'.raised
          /\ last'.error = "no_index"
          /\ ~last'.invoked
          /\ llm_calls' = llm_calls]_vars

\* C18 witness: after an ingestion attempt that failed, a query() raised the
\* no-index error
C18_Witness ==
    /\ last.op = "query"
    /\ last.error = "no_index"
    /\ ingest_calls >= 1
    /\ NeverIndexed
    /\ llm_calls = <<>>

\* the last query() returned an abstention: decided before generation
\* (line 255), substituted by the gate of line 321, or the backend's own
\* "Not in KB yet." or abstention string
Abstained ==
    /\ last.op = "query"
    /\ ~last.raised
    /\ \/ ~last.invoked
       \/ last.gated \in {ABSTAIN, Out_refuse}

\* C19 (as claimed): whenever the answer of a query() is an abstention, the
\* returned sources are empty and the audit record has status not_in_kb with
\* no sources.
C19_AbstentionConsistency ==
    Abstained =>
        /\ last.sources = <<>>
        /\ NewestLog.status = "not_in_kb"
        /\ json_loads(NewestLog.sources_json) = <<>>

\* this step is an ingestion call; this step ends a run of the sync command
IngestStep == ingest_calls' = ingest_calls + 1
SyncStep == Len(sync_trace') = Len(sync_trace) + 1

\* what a query() on the store `vs` returns and does
QueryOn(vs, llm_t) ==
    query(vs, llm_t, logger, "q1", NoTemp, NoK, NoRole, TRUE, TRUE, Out_plain)

\* C20: an ingestion call that fails (empty input, a document that cannot be
\* loaded, an embedding failure) leaves the active index as it was, with the
\* same chunks, so a later query returns what it returned before the call;
\* a sync run whose index rebuild fails ends with the doc_state table as it
\* was when the run started.
C20_FailedIngestionKeepsIndex ==
    [][/\ (IngestStep /\ last'.raised)
          => /\ vectorstore' = vectorstore
             /\ QueryOn(vectorstore', llm_temperature') = QueryOn(vectorstore, llm_temperature)
       /\ (SyncStep /\ ~sync_trace'[Len(sync_trace')].completed)
          => doc_state' = sync_trace'[Len(sync_trace')].doc_state0]_vars

\* C20 witness: with an index of chunks active, an ingestion call failed and
\* the index is still there; then a sync run whose rebuild failed, after
\* hashing a readable file, ended with the doc_state table still empty
C20_Witness ==
    /\ last.op \in IngestOps
    /\ last.raised
    /\ ingest_calls = 2
    /\ vectorstore.built
    /\ vectorstore.chunks # <<>>
    /\ Len(sync_trace) = 1
    /\ ~sync_trace[1].completed
    /\ sync_trace[1].changed_docs >= 1
    /\ doc_state = NoDocState
====
